---- MODULE Spec2Model ----
(***************************************************************************)
(* Seat-inventory logic of the flight-booking backend: the create-booking  *)
(* and cancel-booking handlers of routes/bookings.js over the Flight and   *)
(* Booking collections.  Each handler is a chain of database operations    *)
(* separated by awaits; every link of the chain is a pure operator on      *)
(* (database, request), so that the same code is run either one database   *)
(* operation at a time (Spec: requests interleave at their awaits) or to   *)
(* completion (SpecSeq: each request completes before the next starts).    *)
(* SpecFault adds database operations that fail, SpecCatalog the           *)
(* booked-seats query of routes/flights.js and flights withdrawn from the  *)
(* catalog, SpecHook the Booking model's save on its own.                  *)
(***************************************************************************)
EXTENDS Integers, Sequences, FiniteSets, TLC

VARIABLES
  flights,    \* the Flight collection: id -> document
  bookings,   \* the Booking collection in insertion order; _id = position
  reqs,       \* request slots: inputs, handler position, locals, response
  capacity    \* seat capacity each flight was seeded with (never written)

vars == <<flights, bookings, reqs, capacity>>

(* ------------------------------ bounds --------------------------------- *)

\* Requests that may be in flight together under Spec.
MaxRequests == 2

\* Longest passenger list of one create request.
MaxPassengers == 2

\* Longest booking ledger explored (the ledger only ever grows): no new
\* create request is taken once it is reached.
MaxBookings == 2

\* Longest passenger list handed to the Booking model directly: long enough
\* for the second seat row of the save hook.
MaxDraftPassengers == 7

(* --------------------------- seeded data ------------------------------- *)

Users == {"u1", "u2"}

\* Seat numbers as the validated request carries them (trimmed, non-empty).
SeatNumbers == {"1A", "1B"}

\* The flight catalog is seeded out of band; availableSeats starts at the
\* flight's seat capacity.
Flight(id, price, seats) == [id |-> id, price |-> price, availableSeats |-> seats]

\* Catalog of the one-request-at-a-time runs: two flights.
SeedFlights == [F1 |-> Flight("F1", 100, 2), F2 |-> Flight("F2", 250, 1)]

\* Catalogs of the concurrent runs: one flight of one or two seats.
RacedFlights == {[F1 |-> Flight("F1", 100, c)] : c \in {1, 2}}

\* Flight ids a request may name: the stored ones and one that matches nothing.
FlightIdInputs == DOMAIN flights \cup {"F9"}

RECURSIVE SeqsUpTo(_, _)
SeqsUpTo(S, n) ==
  IF n = 0 THEN {<<>>}
  ELSE LET shorter == SeqsUpTo(S, n - 1)
       IN shorter \cup {Append(q, x) : q \in {t \in shorter : Len(t) = n - 1}, x \in S}

\* body('passengers').isArray({ min: 1 }) and passengers.*.seatNumber notEmpty:
\* the handler body only ever sees non-empty lists of passengers with a seat.
PassengerInputs ==
  {[i \in 1..Len(q) |-> [seatNumber |-> q[i]]] :
     q \in SeqsUpTo(SeatNumbers, MaxPassengers) \ {<<>>}}

(* ----------------------------- documents ------------------------------- *)

\* What findById yields when no document matches.
NullFlight == [id |-> "null", price |-> 0, availableSeats |-> 0]

NullBooking ==
  [id |-> 0, user |-> "", flight |-> "", passengers |-> <<>>, totalSeats |-> 0,
   totalAmount |-> 0, bookingStatus |-> "", paymentStatus |-> "",
   bookingReference |-> ""]

NoResponse == [status |-> 0, message |-> ""]

IdleRequest ==
  [kind |-> "none", pc |-> "idle", user |-> "", flightId |-> "", passengers |-> <<>>,
   bookingId |-> 0, flight |-> NullFlight, booking |-> NullBooking,
   totalSeats |-> 0, totalAmount |-> 0, res |-> NoResponse,
   error |-> "", seats |-> <<>>]

Database == [flights |-> flights, bookings |-> bookings]

DatabaseNext == [flights |-> flights', bookings |-> bookings']

(* ------------------------- persistence layer --------------------------- *)

FlightFindById(d, id) ==
  IF id \in DOMAIN d.flights THEN d.flights[id] ELSE NullFlight

BookingFindById(d, id) ==
  IF id \in 1..Len(d.bookings) THEN d.bookings[id] ELSE NullBooking

\* availableSeats: { type: Number, required: true, min: 0 }
FlightValidate(doc) == doc.availableSeats >= 0

\* Mutant: the save writes nothing (the change is not seen as a modification).
FlightSaveNothing(d, doc) == d

\* flight.save(): the modified path availableSeats is written to the stored
\* document (a $set of the handler's local value, not an increment).
FlightSave(d, doc) ==
  [d EXCEPT !.flights = [@ EXCEPT ![doc.id].availableSeats = doc.availableSeats]]

\* 'BK' + Date.now() + random suffix; the ledger position stands for the clock.
GenerateReference(d) == "BK" \o ToString(Len(d.bookings) + 1)

SeatsPerRow == 6

SeatLetters == <<"A", "B", "C", "D", "E", "F">>

\* bookingSchema.pre('save'): reference only when absent, seat only when absent.
AutoSeat(idx) == ToString((idx \div SeatsPerRow) + 1) \o SeatLetters[(idx % SeatsPerRow) + 1]

\* Mutant: the hook issues a new reference at every save.
PreSaveNewReference(d, doc) ==
  [doc EXCEPT
     !.bookingReference = GenerateReference(d),
     !.passengers = [i \in 1..Len(@) |->
                       IF @[i].seatNumber = ""
                       THEN [@[i] EXCEPT !.seatNumber = AutoSeat(i - 1)]
                       ELSE @[i]]]

PreSave(d, doc) ==
  [doc EXCEPT
     !.bookingReference = IF @ = "" THEN GenerateReference(d) ELSE @,
     !.passengers = [i \in 1..Len(@) |->
                       IF @[i].seatNumber = ""
                       THEN [@[i] EXCEPT !.seatNumber = AutoSeat(i - 1)]
                       ELSE @[i]]]

\* passengerSchema.seatNumber: { type: String, required: true }.  A required
\* string path rejects an absent value and the empty string.
BookingValidate(doc) ==
  \A i \in 1..Len(doc.passengers) : doc.passengers[i].seatNumber # ""

\* Booking.create(fields): a new document is validated, then passed through
\* the pre-save hook, then inserted.  Validation is the first pre-save step of
\* the library: a document it rejects reaches neither the hook nor the store.
BookingInsert(d, doc) ==
  IF BookingValidate(doc)
    THEN LET stored == [PreSave(d, doc) EXCEPT !.id = Len(d.bookings) + 1]
         IN [d EXCEPT !.bookings = Append(@, stored)]
  ELSE d

\* booking.save() of a loaded document: the paths the handler or the hook
\* changed are written back.
BookingSave(d, doc) ==
  LET hooked == PreSave(d, doc)
  IN [d EXCEPT !.bookings =
        [@ EXCEPT ![doc.id].bookingStatus = hooked.bookingStatus,
                  ![doc.id].bookingReference = hooked.bookingReference,
                  ![doc.id].passengers = hooked.passengers]]

SeatSet(passengers) == {passengers[i].seatNumber : i \in 1..Len(passengers)}

\* Mutant: the flight filter is missing, a seat number is held on every flight.
ExistingBookingsAnyFlight(d, flightId, seatNumbers) ==
  {i \in 1..Len(d.bookings) :
     /\ d.bookings[i].bookingStatus # "cancelled"
     /\ SeatSet(d.bookings[i].passengers) \cap seatNumbers # {}}

\* Mutant: the status filter is missing, a cancelled booking keeps its seats.
ExistingBookingsAnyStatus(d, flightId, seatNumbers) ==
  {i \in 1..Len(d.bookings) :
     /\ d.bookings[i].flight = flightId
     /\ SeatSet(d.bookings[i].passengers) \cap seatNumbers # {}}

\* Mutant: the status filter matches the cancelled bookings instead of
\* excluding them.
ExistingBookingsCancelledOnly(d, flightId, seatNumbers) ==
  {i \in 1..Len(d.bookings) :
     /\ d.bookings[i].flight = flightId
     /\ d.bookings[i].bookingStatus = "cancelled"
     /\ SeatSet(d.bookings[i].passengers) \cap seatNumbers # {}}

\* Booking.find({ flight, bookingStatus: { $ne: 'cancelled' },
\*                'passengers.seatNumber': { $in: seatNumbers } })
ExistingBookings(d, flightId, seatNumbers) ==
  {i \in 1..Len(d.bookings) :
     /\ d.bookings[i].flight = flightId
     /\ d.bookings[i].bookingStatus # "cancelled"
     /\ SeatSet(d.bookings[i].passengers) \cap seatNumbers # {}}

\* Mutant: the query has no status filter.
ConfirmedBookingsAnyStatus(d, flightId) ==
  SelectSeq(d.bookings, LAMBDA b : b.flight = flightId)

\* Booking.find({ flight: flightId, bookingStatus: 'confirmed' }), in
\* insertion order.
ConfirmedBookings(d, flightId) ==
  SelectSeq(d.bookings,
            LAMBDA b : b.flight = flightId /\ b.bookingStatus = "confirmed")

\* bookings.flatMap(booking => booking.passengers.map(p => p.seatNumber))
RECURSIVE FlatSeats(_)
FlatSeats(docs) ==
  IF docs = <<>> THEN <<>>
  ELSE [i \in 1..Len(Head(docs).passengers) |-> Head(docs).passengers[i].seatNumber]
       \o FlatSeats(Tail(docs))

\* [...new Set(list)]: each value once, at the place of its first occurrence.
RECURSIVE Unique(_)
Unique(list) ==
  IF list = <<>> THEN <<>>
  ELSE LET front == Unique(SubSeq(list, 1, Len(list) - 1))
           last == list[Len(list)]
       IN IF \E i \in 1..Len(front) : front[i] = last THEN front
          ELSE Append(front, last)

\* Mutant: the list is returned as collected, repeats included.
BookedSeatsAsCollected(d, flightId) == FlatSeats(ConfirmedBookings(d, flightId))

\* GET /:id/booked-seats: uniqueBookedSeats
BookedSeats(d, flightId) == Unique(FlatSeats(ConfirmedBookings(d, flightId)))

(* --------------------------- handler steps ----------------------------- *)

\* res.status(...).json(...): the handler ends and its locals with it.
Respond(d, q, status, message) ==
  [db |-> d,
   rq |-> [q EXCEPT !.pc = "done", !.res = [status |-> status, message |-> message],
                    !.flight = NullFlight, !.booking = NullBooking,
                    !.totalSeats = 0, !.totalAmount = 0]]

Continue(d, q, pc) == [db |-> d, rq |-> [q EXCEPT !.pc = pc]]

CapacityMessage(n) == "Only " \o ToString(n) \o " seats available"

\* Mutant: the comparison is off by one.
InsufficientSeatsOffByOne(flight, totalSeats) == flight.availableSeats <= totalSeats

\* Mutant: the check only asks for one free seat.
InsufficientSeatsNoneLeft(flight, totalSeats) == flight.availableSeats < 1

\* flight.availableSeats < totalSeats
InsufficientSeats(flight, totalSeats) == flight.availableSeats < totalSeats

\* new Set(seatNumbers).size !== seatNumbers.length
DuplicateSeats(passengers) == Cardinality(SeatSet(passengers)) # Len(passengers)

\* Mutant: the duplicate-seat check runs before the capacity check.
CreateFindFlightDuplicateFirst(d, q) ==
  LET flight == FlightFindById(d, q.flightId)
      totalSeats == Len(q.passengers)
  IN IF flight = NullFlight
       THEN Respond(d, q, 404, "Flight not found")
     ELSE IF DuplicateSeats(q.passengers)
       THEN Respond(d, q, 400, "Duplicate seat numbers in booking")
     ELSE IF InsufficientSeats(flight, totalSeats)
       THEN Respond(d, q, 400, CapacityMessage(flight.availableSeats))
     ELSE Continue(d, [q EXCEPT !.flight = flight, !.totalSeats = totalSeats],
                   "findExisting")

\* POST /: Flight.findById, then the capacity and duplicate-seat checks.
CreateFindFlight(d, q) ==
  LET flight == FlightFindById(d, q.flightId)
      totalSeats == Len(q.passengers)
  IN IF flight = NullFlight
       THEN Respond(d, q, 404, "Flight not found")
     ELSE IF InsufficientSeats(flight, totalSeats)
       THEN Respond(d, q, 400, CapacityMessage(flight.availableSeats))
     ELSE IF DuplicateSeats(q.passengers)
       THEN Respond(d, q, 400, "Duplicate seat numbers in booking")
     ELSE Continue(d, [q EXCEPT !.flight = flight, !.totalSeats = totalSeats],
                   "findExisting")

\* Mutant: the amount is the price of one seat whatever the passenger count.
CreateFindExistingUnitPrice(d, q) ==
  IF ExistingBookings(d, q.flightId, SeatSet(q.passengers)) # {}
    THEN Respond(d, q, 400, "One or more selected seats are already booked")
  ELSE Continue(d, [q EXCEPT !.totalAmount = q.flight.price], "createBooking")

\* Mutant: the seats are taken off the counter before the lookup; a
\* rejection leaves them taken.
CreateFindExistingDecrementFirst(d, q) ==
  IF ExistingBookings(d, q.flightId, SeatSet(q.passengers)) # {}
    THEN Respond(FlightSave(d, [q.flight EXCEPT !.availableSeats = @ - q.totalSeats]),
                 q, 400, "One or more selected seats are already booked")
  ELSE Continue(d, [q EXCEPT !.totalAmount = q.flight.price * q.totalSeats],
                "createBooking")

\* POST /: Booking.find of the active bookings holding a requested seat.
CreateFindExisting(d, q) ==
  IF ExistingBookings(d, q.flightId, SeatSet(q.passengers)) # {}
    THEN Respond(d, q, 400, "One or more selected seats are already booked")
  ELSE Continue(d, [q EXCEPT !.totalAmount = q.flight.price * q.totalSeats],
                "createBooking")

\* Mutant: the booking is stored awaiting confirmation.
NewBookingPending(q) ==
  [id |-> 0, user |-> q.user, flight |-> q.flightId, passengers |-> q.passengers,
   totalSeats |-> q.totalSeats, totalAmount |-> q.totalAmount,
   bookingStatus |-> "pending", paymentStatus |-> "paid", bookingReference |-> ""]

NewBooking(q) ==
  [id |-> 0, user |-> q.user, flight |-> q.flightId, passengers |-> q.passengers,
   totalSeats |-> q.totalSeats, totalAmount |-> q.totalAmount,
   bookingStatus |-> "confirmed", paymentStatus |-> "paid", bookingReference |-> ""]

\* flight.availableSeats -= totalSeats, on the handler's copy of the flight.
Decrement(flight, totalSeats) ==
  [flight EXCEPT !.availableSeats = @ - totalSeats]

\* POST /: Booking.create, then the decrement of the local flight document.
CreateBooking(d, q) ==
  IF BookingValidate(NewBooking(q))
    THEN LET d2 == BookingInsert(d, NewBooking(q))
             booking == d2.bookings[Len(d2.bookings)]
         IN Continue(d2, [q EXCEPT !.booking = booking, !.bookingId = booking.id,
                                   !.flight = Decrement(q.flight, q.totalSeats)],
                     "saveFlight")
  ELSE Respond(d, q, 500, "Error creating booking")

\* POST /: flight.save(); a validation error lands in the catch block.
CreateSaveFlight(d, q) ==
  IF FlightValidate(q.flight)
    THEN Continue(FlightSave(d, q.flight), q, "populate")
  ELSE Respond(d, q, 500, "Error creating booking")

\* POST /: Booking.findById(...).populate(...) and the 201 response.
CreatePopulate(d, q) ==
  Respond(d, [q EXCEPT !.booking = BookingFindById(d, q.bookingId)],
          201, "Booking created successfully")

\* Mutant: the already-cancelled check runs before the owner check.
CancelFindBookingStatusFirst(d, q) ==
  LET booking == BookingFindById(d, q.bookingId)
  IN IF booking = NullBooking
       THEN Respond(d, q, 404, "Booking not found")
     ELSE IF booking.bookingStatus = "cancelled"
       THEN Respond(d, q, 400, "Booking is already cancelled")
     ELSE IF booking.user # q.user
       THEN Respond(d, q, 403, "Not authorized to cancel this booking")
     ELSE Continue(d, [q EXCEPT !.booking = [booking EXCEPT !.bookingStatus = "cancelled"]],
                   "saveBooking")

\* PUT /:id/cancel: Booking.findById and the three checks, then the local
\* status assignment.
CancelFindBooking(d, q) ==
  LET booking == BookingFindById(d, q.bookingId)
  IN IF booking = NullBooking
       THEN Respond(d, q, 404, "Booking not found")
     ELSE IF booking.user # q.user
       THEN Respond(d, q, 403, "Not authorized to cancel this booking")
     ELSE IF booking.bookingStatus = "cancelled"
       THEN Respond(d, q, 400, "Booking is already cancelled")
     ELSE Continue(d, [q EXCEPT !.booking = [booking EXCEPT !.bookingStatus = "cancelled"]],
                   "saveBooking")

\* PUT /:id/cancel: booking.save()
CancelSaveBooking(d, q) == Continue(BookingSave(d, q.booking), q, "findFlight")

\* Mutant: the counter is restored by one seat per booking.
IncrementByOne(flight, totalSeats) ==
  [flight EXCEPT !.availableSeats = @ + 1]

\* flight.availableSeats += booking.totalSeats, on the handler's copy.
Increment(flight, totalSeats) ==
  [flight EXCEPT !.availableSeats = @ + totalSeats]

\* Mutant: a missing flight is reported, as the create handler reports it.
CancelFindFlightRequired(d, q) ==
  LET flight == FlightFindById(d, q.booking.flight)
  IN IF flight = NullFlight
       THEN Respond(d, q, 404, "Flight not found")
     ELSE Continue(d, [q EXCEPT !.flight = Increment(flight, q.booking.totalSeats)],
                   "restoreFlight")

\* PUT /:id/cancel: Flight.findById(booking.flight); a missing flight skips
\* the restoration and the request succeeds.
CancelFindFlight(d, q) ==
  LET flight == FlightFindById(d, q.booking.flight)
  IN IF flight = NullFlight
       THEN Respond(d, q, 200, "Booking cancelled successfully")
     ELSE Continue(d, [q EXCEPT !.flight = Increment(flight, q.booking.totalSeats)],
                   "restoreFlight")

\* PUT /:id/cancel: flight.save() and the 200 response.
CancelSaveFlight(d, q) ==
  IF FlightValidate(q.flight)
    THEN Respond(FlightSave(d, q.flight), q, 200, "Booking cancelled successfully")
  ELSE Respond(d, q, 500, "Error cancelling booking")

\* GET /:id/booked-seats: the one find and the 200 response (it carries data
\* and no message).
GetBookedSeats(d, q) ==
  Respond(d, [q EXCEPT !.seats = BookedSeats(d, q.flightId)], 200, "")

\* Mutant: the catch block of the create handler withdraws the booking it had
\* inserted.
ThrowCompensating(d, q) ==
  Respond(IF q.kind = "create" /\ q.bookingId \in 1..Len(d.bookings)
            THEN [d EXCEPT !.bookings[q.bookingId].bookingStatus = "cancelled"]
          ELSE d,
          [q EXCEPT !.error = q.pc], 500,
          CASE q.kind = "create" -> "Error creating booking"
            [] q.kind = "cancel" -> "Error cancelling booking"
            [] OTHER             -> "Error fetching booked seats")

\* catch (error): the database operation the handler was waiting on threw.
\* The handler answers 500; what it wrote before stays written.
Throw(d, q) ==
  Respond(d, [q EXCEPT !.error = q.pc], 500,
          CASE q.kind = "create" -> "Error creating booking"
            [] q.kind = "cancel" -> "Error cancelling booking"
            [] OTHER             -> "Error fetching booked seats")

\* One database operation of request q together with the handler code that
\* follows it up to the next await.
Step(d, q) ==
  CASE q.pc = "findFlight"    -> IF q.kind = "create" THEN CreateFindFlight(d, q)
                                 ELSE CancelFindFlight(d, q)
    [] q.pc = "findExisting"  -> CreateFindExisting(d, q)
    [] q.pc = "createBooking" -> CreateBooking(d, q)
    [] q.pc = "saveFlight"    -> CreateSaveFlight(d, q)
    [] q.pc = "populate"      -> CreatePopulate(d, q)
    [] q.pc = "findBooking"   -> CancelFindBooking(d, q)
    [] q.pc = "saveBooking"   -> CancelSaveBooking(d, q)
    [] q.pc = "restoreFlight" -> CancelSaveFlight(d, q)
    [] q.pc = "findConfirmed" -> GetBookedSeats(d, q)
    [] OTHER                  -> [db |-> d, rq |-> q]

\* A handler run from its current await to its response, nothing in between.
RECURSIVE Run(_, _)
Run(d, q) ==
  IF q.pc \in {"done", "idle"} THEN [db |-> d, rq |-> q]
  ELSE LET out == Step(d, q) IN Run(out.db, out.rq)

\* The request as the handler body first sees it (auth and validation passed).
CreateRequest(user, flightId, passengers) ==
  [IdleRequest EXCEPT !.kind = "create", !.pc = "findFlight", !.user = user,
                      !.flightId = flightId, !.passengers = passengers]

CancelRequest(user, bookingId) ==
  [IdleRequest EXCEPT !.kind = "cancel", !.pc = "findBooking", !.user = user,
                      !.bookingId = bookingId]

HandleCreate(d, user, flightId, passengers) ==
  Run(d, CreateRequest(user, flightId, passengers))

HandleCancel(d, user, bookingId) == Run(d, CancelRequest(user, bookingId))

BookedSeatsRequest(user, flightId) ==
  [IdleRequest EXCEPT !.kind = "seats", !.pc = "findConfirmed", !.user = user,
                      !.flightId = flightId]

HandleBookedSeats(d, user, flightId) == Run(d, BookedSeatsRequest(user, flightId))

\* A handler run in which the database operation awaited at position `at`
\* rejects: the operations before it took effect, it and the ones after it
\* did not.
RECURSIVE RunFailing(_, _, _)
RunFailing(d, q, at) ==
  IF q.pc \in {"done", "idle"} THEN [db |-> d, rq |-> q]
  ELSE IF q.pc = at THEN Throw(d, q)
  ELSE LET out == Step(d, q) IN RunFailing(out.db, out.rq, at)

(* ------------------------------ actions -------------------------------- *)

Requests == 1..MaxRequests

Seeded(catalog) ==
  /\ flights = catalog
  /\ capacity = [f \in DOMAIN catalog |-> catalog[f].availableSeats]
  /\ bookings = <<>>
  /\ reqs = [r \in Requests |-> IdleRequest]

Init == \E catalog \in RacedFlights : Seeded(catalog)

InitSeq == Seeded(SeedFlights)

Commit(r, out) ==
  /\ flights' = out.db.flights
  /\ bookings' = out.db.bookings
  /\ reqs' = [reqs EXCEPT ![r] = out.rq]
  /\ UNCHANGED capacity

\* Create requests that have not yet inserted their booking.
PendingInserts ==
  {s \in Requests : reqs[s].kind = "create"
                    /\ reqs[s].pc \in {"findFlight", "findExisting", "createBooking"}}

\* Booking ids a cancel request may name: every stored one and one beyond.
BookingIdInputs == 1..(Len(bookings) + 1)

\* A request arrives on the lowest free slot (slots are interchangeable); a
\* slot is free once its handler has responded.
Free(r) == reqs[r].pc \in {"idle", "done"}

Arrives(r) == Free(r) /\ \A s \in 1..(r - 1) : ~Free(s)

ReceiveCreate(r) ==
  /\ Arrives(r)
  /\ Len(bookings) + Cardinality(PendingInserts) < MaxBookings
  /\ \E user \in Users, flightId \in FlightIdInputs, passengers \in PassengerInputs :
       reqs' = [reqs EXCEPT ![r] = CreateRequest(user, flightId, passengers)]
  /\ UNCHANGED <<flights, bookings, capacity>>

ReceiveCancel(r) ==
  /\ Arrives(r)
  /\ \E user \in Users, bookingId \in BookingIdInputs :
       reqs' = [reqs EXCEPT ![r] = CancelRequest(user, bookingId)]
  /\ UNCHANGED <<flights, bookings, capacity>>

At(r, kind, pc) == reqs[r].kind = kind /\ reqs[r].pc = pc

DoCreateFindFlight(r) ==
  At(r, "create", "findFlight") /\ Commit(r, CreateFindFlight(Database, reqs[r]))

DoCreateFindExisting(r) ==
  At(r, "create", "findExisting") /\ Commit(r, CreateFindExisting(Database, reqs[r]))

DoCreateBooking(r) ==
  At(r, "create", "createBooking") /\ Commit(r, CreateBooking(Database, reqs[r]))

DoCreateSaveFlight(r) ==
  At(r, "create", "saveFlight") /\ Commit(r, CreateSaveFlight(Database, reqs[r]))

DoCreatePopulate(r) ==
  At(r, "create", "populate") /\ Commit(r, CreatePopulate(Database, reqs[r]))

DoCancelFindBooking(r) ==
  At(r, "cancel", "findBooking") /\ Commit(r, CancelFindBooking(Database, reqs[r]))

DoCancelSaveBooking(r) ==
  At(r, "cancel", "saveBooking") /\ Commit(r, CancelSaveBooking(Database, reqs[r]))

DoCancelFindFlight(r) ==
  At(r, "cancel", "findFlight") /\ Commit(r, CancelFindFlight(Database, reqs[r]))

DoCancelSaveFlight(r) ==
  At(r, "cancel", "restoreFlight") /\ Commit(r, CancelSaveFlight(Database, reqs[r]))

\* Concurrent callers: any request may take its next database operation.
Next ==
  \E r \in Requests :
    \/ ReceiveCreate(r)
    \/ ReceiveCancel(r)
    \/ DoCreateFindFlight(r)
    \/ DoCreateFindExisting(r)
    \/ DoCreateBooking(r)
    \/ DoCreateSaveFlight(r)
    \/ DoCreatePopulate(r)
    \/ DoCancelFindBooking(r)
    \/ DoCancelSaveBooking(r)
    \/ DoCancelFindFlight(r)
    \/ DoCancelSaveFlight(r)

Spec == Init /\ [][Next]_vars

\* One request at a time: the handler runs from arrival to response before
\* the next request arrives; slot 1 holds the request served last.
ServeCreate ==
  /\ Len(bookings) < MaxBookings
  /\ \E user \in Users, flightId \in FlightIdInputs, passengers \in PassengerInputs :
       Commit(1, HandleCreate(Database, user, flightId, passengers))

ServeCancel ==
  \E user \in Users, bookingId \in BookingIdInputs :
    Commit(1, HandleCancel(Database, user, bookingId))

NextSeq == ServeCreate \/ ServeCancel

SpecSeq == InitSeq /\ [][NextSeq]_vars

\* The awaited database operations of each handler, by handler position.
CreateOps == {"findFlight", "findExisting", "createBooking", "saveFlight", "populate"}

CancelOps == {"findBooking", "saveBooking", "findFlight", "restoreFlight"}

\* A request during which one database operation fails.
ServeCreateFailing ==
  /\ Len(bookings) < MaxBookings
  /\ \E user \in Users, flightId \in FlightIdInputs, passengers \in PassengerInputs,
        at \in CreateOps :
       LET out == RunFailing(Database, CreateRequest(user, flightId, passengers), at)
       IN out.rq.error = at /\ Commit(1, out)

ServeCancelFailing ==
  \E user \in Users, bookingId \in BookingIdInputs, at \in CancelOps :
    LET out == RunFailing(Database, CancelRequest(user, bookingId), at)
    IN out.rq.error = at /\ Commit(1, out)

ServeBookedSeats ==
  \E user \in Users, flightId \in FlightIdInputs :
    Commit(1, HandleBookedSeats(Database, user, flightId))

\* A flight is withdrawn from the catalog; its bookings stay in the ledger.
RemoveFlight ==
  /\ \E f \in DOMAIN flights :
       flights' = [g \in DOMAIN flights \ {f} |-> flights[g]]
  /\ UNCHANGED <<bookings, reqs, capacity>>

\* One request at a time over a store whose operations may fail.
NextFault ==
  \/ ServeCreate
  \/ ServeCancel
  \/ ServeCreateFailing
  \/ ServeCancelFailing

SpecFault == InitSeq /\ [][NextFault]_vars

\* One request at a time, the booked-seats query among them, over a catalog
\* that is maintained out of band.
NextCatalog ==
  \/ ServeCreate
  \/ ServeCancel
  \/ ServeBookedSeats
  \/ RemoveFlight

SpecCatalog == InitSeq /\ [][NextCatalog]_vars

\* The Booking model on its own: documents handed to Booking.create by a
\* caller that, unlike the route, lets passengers come without a seat number
\* ("" is the absent value).
DraftSeats == {"", "7C"}

DraftPassengers ==
  {[i \in 1..Len(q) |-> [seatNumber |-> q[i]]] :
     q \in SeqsUpTo(DraftSeats, MaxDraftPassengers) \ {<<>>}}

DraftRequest(passengers) ==
  [IdleRequest EXCEPT !.kind = "save", !.pc = "createBooking", !.user = "u1",
                      !.flightId = "F1", !.passengers = passengers,
                      !.totalSeats = Len(passengers),
                      !.totalAmount = SeedFlights["F1"].price * Len(passengers)]

InitHook ==
  /\ flights = SeedFlights
  /\ capacity = [f \in DOMAIN SeedFlights |-> SeedFlights[f].availableSeats]
  /\ bookings = <<>>
  /\ \E passengers \in DraftPassengers :
       reqs = [r \in Requests |->
                 IF r = 1 THEN DraftRequest(passengers) ELSE IdleRequest]

\* Booking.create(draft): the promise resolves with the stored document or
\* rejects with the validation error.
SaveDraft ==
  /\ At(1, "save", "createBooking")
  /\ LET doc == NewBooking(reqs[1])
     IN /\ bookings' = BookingInsert(Database, doc).bookings
        /\ reqs' = [reqs EXCEPT ![1].pc = "done",
                                ![1].error = IF BookingValidate(doc) THEN ""
                                             ELSE "ValidationError"]
  /\ UNCHANGED <<flights, capacity>>

NextHook == SaveDraft

SpecHook == InitHook /\ [][NextHook]_vars

(* ------------------------- derived quantities -------------------------- *)

\* Ids of the active (non-cancelled) bookings of flight f in database d.
ActiveBookings(d, f) ==
  {i \in 1..Len(d.bookings) :
     d.bookings[i].flight = f /\ d.bookings[i].bookingStatus # "cancelled"}

HeldSeats(d, f) == UNION {SeatSet(d.bookings[i].passengers) : i \in ActiveBookings(d, f)}

RECURSIVE SumTotalSeats(_, _)
SumTotalSeats(d, ids) ==
  IF ids = {} THEN 0
  ELSE LET i == CHOOSE x \in ids : TRUE
       IN d.bookings[i].totalSeats + SumTotalSeats(d, ids \ {i})

SeatsHeldTotal(d, f) == SumTotalSeats(d, ActiveBookings(d, f))

Served(r, kind, status) ==
  reqs[r].kind = kind /\ reqs[r].pc = "done" /\ reqs[r].res.status = status

(* ------------------------------ claims --------------------------------- *)

\* C1: with requests served one at a time, in every reachable state no seat
\* number occurs twice among the passengers of one flight's active bookings,
\* neither inside one booking nor across two bookings.
C1_NoSeatHeldTwice ==
  \A f \in DOMAIN flights :
    \A i, j \in ActiveBookings(Database, f) :
      /\ Cardinality(SeatSet(bookings[i].passengers)) = Len(bookings[i].passengers)
      /\ i # j => SeatSet(bookings[i].passengers) \cap SeatSet(bookings[j].passengers) = {}

\* C1 witness: the request just served named a seat that an active booking
\* of the flight holds, and was turned away for it.
C1_Witness ==
  /\ Served(1, "create", 400)
  /\ reqs[1].res.message = "One or more selected seats are already booked"
  /\ reqs[1].flightId \in DOMAIN flights
  /\ SeatSet(reqs[1].passengers) \cap HeldSeats(Database, reqs[1].flightId) # {}

\* C2: with requests served one at a time (no persistence failure, no flight
\* deletion), for every flight availableSeats plus the totalSeats of its
\* active bookings equals the seat capacity it was seeded with.
C2_CounterMatchesLedger ==
  \A f \in DOMAIN flights :
    flights[f].availableSeats + SeatsHeldTotal(Database, f) = capacity[f]

\* C2 witness: a flight with a cancelled two-seat booking and an active
\* booking, after a successful cancel.
C2_Witness ==
  /\ \E i, j \in 1..Len(bookings) :
       /\ bookings[i].flight = bookings[j].flight
       /\ bookings[i].bookingStatus = "cancelled"
       /\ bookings[i].totalSeats = 2
       /\ bookings[j].bookingStatus = "confirmed"
  /\ \E f \in DOMAIN flights : flights[f].availableSeats < capacity[f]

\* A create request of slot r that is past the insert: its booking id is known.
Inserted(r) ==
  /\ reqs[r].kind = "create"
  /\ reqs[r].pc \in {"saveFlight", "populate", "done"}
  /\ reqs[r].bookingId \in 1..Len(bookings)

\* C3: concurrent create requests race for a seat: the existing-booking
\* lookup of one request does not see a request for the same seat that has
\* passed its own lookup but not yet inserted, and a request that passed the
\* lookup inserts a confirmed booking holding its seats whatever was inserted
\* in between; so two confirmed bookings holding one seat are reachable.
C3_LookupThenInsertRace ==
  [][/\ \A r1, r2 \in Requests :
          ( /\ r1 # r2
            /\ At(r1, "create", "createBooking")
            /\ At(r2, "create", "findExisting")
            /\ reqs[r1].flightId = reqs[r2].flightId
            /\ SeatSet(reqs[r1].passengers) \cap SeatSet(reqs[r2].passengers) # {}
            /\ SeatSet(reqs[r2].passengers) \cap HeldSeats(Database, reqs[r2].flightId) = {}
            /\ reqs'[r2] # reqs[r2] )
          => reqs'[r2].pc = "createBooking"
     /\ \A r \in Requests :
          (At(r, "create", "createBooking") /\ reqs'[r] # reqs[r])
          => /\ Len(bookings') = Len(bookings) + 1
             /\ SubSeq(bookings', 1, Len(bookings)) = bookings
             /\ bookings'[Len(bookings')].bookingStatus = "confirmed"
             /\ bookings'[Len(bookings')].flight = reqs[r].flightId
             /\ bookings'[Len(bookings')].passengers = reqs[r].passengers
             /\ reqs'[r].bookingId = Len(bookings')
    ]_vars

\* C3 witness: two create requests have both answered 201 and their two
\* bookings are confirmed on one flight and hold a common seat.
C3_Witness ==
  \E r1, r2 \in Requests :
    /\ r1 # r2
    /\ Served(r1, "create", 201) /\ Served(r2, "create", 201)
    /\ Inserted(r1) /\ Inserted(r2)
    /\ LET b1 == bookings[reqs[r1].bookingId]
           b2 == bookings[reqs[r2].bookingId]
       IN /\ b1.flight = b2.flight
          /\ b1.bookingStatus = "confirmed" /\ b2.bookingStatus = "confirmed"
          /\ SeatSet(b1.passengers) \cap SeatSet(b2.passengers) # {}

\* Bookings i and j are all the bookings of flight f, both active, on disjoint
\* seats, each within the seeded capacity and together beyond it, and every
\* create request on f has saved the flight.
OversoldBy(f, i, j) ==
  /\ i # j
  /\ {b \in 1..Len(bookings) : bookings[b].flight = f} = {i, j}
  /\ ActiveBookings(Database, f) = {i, j}
  /\ SeatSet(bookings[i].passengers) \cap SeatSet(bookings[j].passengers) = {}
  /\ bookings[i].totalSeats <= capacity[f]
  /\ bookings[j].totalSeats <= capacity[f]
  /\ bookings[i].totalSeats + bookings[j].totalSeats > capacity[f]
  /\ \A r \in Requests : ~(At(r, "create", "saveFlight") /\ reqs[r].flightId = f)

\* C4: lost update and oversell under concurrency: two create requests for
\* disjoint seats, each within the flight's availableSeats but not both, can
\* both succeed; then the seats held by active bookings exceed the capacity
\* and the stored availableSeats carries only one of the two decrements.
C4_OversellKeepsOneDecrement ==
  \A f \in DOMAIN flights : \A i, j \in 1..Len(bookings) :
    OversoldBy(f, i, j) =>
      /\ SeatsHeldTotal(Database, f) > capacity[f]
      /\ flights[f].availableSeats \in
           {capacity[f] - bookings[i].totalSeats, capacity[f] - bookings[j].totalSeats}
      /\ flights[f].availableSeats #
           capacity[f] - bookings[i].totalSeats - bookings[j].totalSeats
      /\ \A r \in Requests :
           (reqs[r].kind = "create" /\ reqs[r].pc = "done" /\ reqs[r].bookingId \in {i, j})
           => reqs[r].res.status = 201

\* C4 witness: both create requests have answered 201 and their bookings
\* oversell the flight.
C4_Witness ==
  \E r1, r2 \in Requests :
    /\ r1 # r2
    /\ Served(r1, "create", 201) /\ Served(r2, "create", 201)
    /\ Inserted(r1) /\ Inserted(r2)
    /\ reqs[r1].flightId = reqs[r2].flightId
    /\ OversoldBy(reqs[r1].flightId, reqs[r1].bookingId, reqs[r2].bookingId)

\* C5: under any interleaving of create and cancel requests, every flight's
\* availableSeats is at most the seat capacity it was seeded with.
C5_AtMostCapacity ==
  \A f \in DOMAIN flights : flights[f].availableSeats <= capacity[f]

\* C6: under any interleaving of create and cancel requests, every flight's
\* stored availableSeats is a non-negative integer, and the value a create
\* request is about to write (its own read minus its passenger count) is
\* never below 0, so no create request fails on the schema minimum.
C6_NonNegativeSeats ==
  /\ \A f \in DOMAIN flights : flights[f].availableSeats \in Nat
  /\ \A r \in Requests :
       At(r, "create", "saveFlight") => reqs[r].flight.availableSeats \in Nat
  /\ \A r \in Requests : ~Served(r, "create", 500)

\* C6 witness: a create request is about to save a copy of the flight read
\* before another request's decrement was stored: subtracting its passenger
\* count from the stored value would go below 0, its own value does not.
C6_Witness ==
  \E r \in Requests :
    /\ At(r, "create", "saveFlight")
    /\ flights[reqs[r].flightId].availableSeats - reqs[r].totalSeats < 0
    /\ reqs[r].flight.availableSeats >= 0

\* C7: a flight with availableSeats = S, one request at a time: a create
\* request with exactly S passengers on pairwise distinct free seats succeeds
\* and leaves availableSeats = 0; one with S + 1 passengers fails with
\* "Only S seats available" and leaves the flight and the ledger unchanged.
C7_ExactFitAndOneTooMany ==
  [][LET q == reqs'[1]
         f == q.flightId
         n == Len(q.passengers)
     IN (q.kind = "create" /\ f \in DOMAIN flights) =>
          LET S == flights[f].availableSeats
          IN /\ ( /\ n = S
                  /\ Cardinality(SeatSet(q.passengers)) = n
                  /\ SeatSet(q.passengers) \cap HeldSeats(Database, f) = {} )
                => /\ q.res.status = 201
                   /\ flights'[f].availableSeats = 0
                   /\ Len(bookings') = Len(bookings) + 1
             /\ n = S + 1
                => /\ q.res.status = 400
                   /\ q.res.message = "Only " \o ToString(S) \o " seats available"
                   /\ flights' = flights
                   /\ bookings' = bookings
    ]_vars

\* C7 witness: a booking took every seat of a flight at once, the counter is
\* 0, and the one-passenger request just served was refused with "Only 0".
C7_Witness ==
  /\ Served(1, "create", 400)
  /\ reqs[1].res.message = "Only 0 seats available"
  /\ Len(reqs[1].passengers) = 1
  /\ reqs[1].flightId \in DOMAIN flights
  /\ flights[reqs[1].flightId].availableSeats = 0
  /\ \E i \in ActiveBookings(Database, reqs[1].flightId) :
       bookings[i].totalSeats = capacity[reqs[1].flightId]

\* C8: one request at a time: a cancel by the owner of a confirmed booking B
\* on an existing flight sets B cancelled and adds exactly B.totalSeats to
\* the flight's availableSeats; a create for B's seats on that flight right
\* after it succeeds; and a create followed by the cancel of its booking
\* gives back the counter and the set of actively held seats.
C8_CancelRestoresAndFreesSeats ==
  [][LET q == reqs'[1]
     IN /\ (q.kind = "cancel" /\ q.bookingId \in 1..Len(bookings)) =>
             LET B == bookings[q.bookingId]
             IN (B.bookingStatus = "confirmed" /\ B.user = q.user
                                               /\ B.flight \in DOMAIN flights)
                => /\ q.res.status = 200
                   /\ bookings' = [bookings EXCEPT ![q.bookingId].bookingStatus = "cancelled"]
                   /\ flights' = [flights EXCEPT
                                    ![B.flight].availableSeats = @ + B.totalSeats]
                   /\ \A u \in Users :
                        HandleCreate(DatabaseNext, u, B.flight, B.passengers).rq.res.status = 201
        /\ (q.kind = "create" /\ q.res.status = 201) =>
             LET back == HandleCancel(DatabaseNext, q.user, q.bookingId)
             IN /\ back.rq.res.status = 200
                /\ back.db.flights = flights
                /\ \A f \in DOMAIN flights : HeldSeats(back.db, f) = HeldSeats(Database, f)
    ]_vars

\* C8 witness: a cancelled booking's seats are held again by a later confirmed
\* booking of the same flight, created by the request just served.
C8_Witness ==
  /\ Served(1, "create", 201)
  /\ reqs[1].bookingId \in 2..Len(bookings)
  /\ \E i \in 1..(reqs[1].bookingId - 1) :
       /\ bookings[i].bookingStatus = "cancelled"
       /\ bookings[i].flight = bookings[reqs[1].bookingId].flight
       /\ bookings[i].passengers = bookings[reqs[1].bookingId].passengers
       /\ bookings[reqs[1].bookingId].bookingStatus = "confirmed"

\* C9: a booking goes from confirmed to cancelled exactly once: of the cancel
\* requests for one booking, under any interleaving, at most one answers
\* success (and the flight's availableSeats is restored at most once).
C9_AtMostOneCancelSucceeds ==
  \A r1, r2 \in Requests :
    (r1 # r2 /\ reqs[r1].bookingId = reqs[r2].bookingId)
    => ~(Served(r1, "cancel", 200) /\ Served(r2, "cancel", 200))

\* C10: cancel checks run in the order exists (404), caller is owner (403),
\* not already cancelled (400), the first failing one decides: the owner of a
\* cancelled booking gets "already cancelled", a non-owner gets 403 whatever
\* the status, and a failed cancel leaves bookings and flights unchanged.
C10_CancelCheckOrder ==
  [][LET q == reqs'[1]
     IN q.kind = "cancel" =>
          IF q.bookingId \notin 1..Len(bookings)
            THEN /\ q.res = [status |-> 404, message |-> "Booking not found"]
                 /\ flights' = flights /\ bookings' = bookings
          ELSE IF bookings[q.bookingId].user # q.user
            THEN /\ q.res = [status |-> 403,
                             message |-> "Not authorized to cancel this booking"]
                 /\ flights' = flights /\ bookings' = bookings
          ELSE IF bookings[q.bookingId].bookingStatus = "cancelled"
            THEN /\ q.res = [status |-> 400, message |-> "Booking is already cancelled"]
                 /\ flights' = flights /\ bookings' = bookings
          ELSE q.res.status = 200
    ]_vars

\* C10 witness: the request just served was a cancel of an already cancelled
\* booking by someone who does not own it, answered 403.
C10_Witness ==
  /\ Served(1, "cancel", 403)
  /\ reqs[1].bookingId \in 1..Len(bookings)
  /\ bookings[reqs[1].bookingId].bookingStatus = "cancelled"
  /\ bookings[reqs[1].bookingId].user # reqs[1].user

\* C11: a create request that no database failure interrupts is answered by
\* the first failing precondition, in this order: the flight exists (404),
\* it has at least as many available seats as the request has passengers
\* (400, capacity), the requested seats are pairwise distinct (400,
\* duplicate), none of them is held by an active booking of the flight (400,
\* already booked); a request passing all four is created.
C11_CreateCheckOrder ==
  [][LET q == reqs'[1]
         n == Len(q.passengers)
     IN (q.kind = "create" /\ q.error = "") =>
          IF q.flightId \notin DOMAIN flights
            THEN q.res = [status |-> 404, message |-> "Flight not found"]
          ELSE IF flights[q.flightId].availableSeats < n
            THEN q.res = [status |-> 400,
                          message |-> CapacityMessage(flights[q.flightId].availableSeats)]
          ELSE IF \E i, j \in 1..n :
                    i # j /\ q.passengers[i].seatNumber = q.passengers[j].seatNumber
            THEN q.res = [status |-> 400, message |-> "Duplicate seat numbers in booking"]
          ELSE IF SeatSet(q.passengers) \cap HeldSeats(Database, q.flightId) # {}
            THEN q.res = [status |-> 400,
                          message |-> "One or more selected seats are already booked"]
          ELSE q.res = [status |-> 201, message |-> "Booking created successfully"]
    ]_vars

\* C11 witness: the request just served repeated a seat that an active
\* booking of the flight already holds, the flight had seats enough, and the
\* answer was the duplicate-in-request one.
C11_Witness ==
  /\ Served(1, "create", 400)
  /\ reqs[1].res.message = "Duplicate seat numbers in booking"
  /\ reqs[1].flightId \in DOMAIN flights
  /\ flights[reqs[1].flightId].availableSeats >= Len(reqs[1].passengers)
  /\ SeatSet(reqs[1].passengers) \cap HeldSeats(Database, reqs[1].flightId) # {}

\* C12: a create or cancel request that a domain check rejects (404 flight
\* or booking not found, 400 capacity, duplicate, already booked or already
\* cancelled, 403 not the owner) writes nothing: the ledger, every field of
\* every booking and every flight's availableSeats are the same after the
\* request as before it.
C12_RejectedWritesNothing ==
  [][LET q == reqs'[1]
     IN (q.kind \in {"create", "cancel"} /\ q.res.status \in {400, 403, 404}) =>
          /\ bookings' = bookings
          /\ flights' = flights
    ]_vars

\* C12 witness: a cancel by someone other than the owner has just been
\* refused, and the booking it named is still active with its seats counted.
C12_Witness ==
  /\ Served(1, "cancel", 403)
  /\ reqs[1].bookingId \in 1..Len(bookings)
  /\ bookings[reqs[1].bookingId].bookingStatus = "confirmed"
  /\ bookings[reqs[1].bookingId].user # reqs[1].user
  /\ flights[bookings[reqs[1].bookingId].flight].availableSeats
       = capacity[bookings[reqs[1].bookingId].flight]
           - SeatsHeldTotal(Database, bookings[reqs[1].bookingId].flight)

\* C13: a booking enters the ledger with totalSeats equal to the length of
\* its passenger list, totalAmount equal to the flight's price times that
\* length, bookingStatus confirmed and paymentStatus paid; from then on, in
\* every state, totalSeats still equals the length of the passenger list
\* and totalSeats, totalAmount and paymentStatus keep their values.
C13_BookingTotals ==
  [][\A i \in 1..Len(bookings') :
       LET b == bookings'[i]
       IN /\ b.totalSeats = Len(b.passengers)
          /\ IF i > Len(bookings)
               THEN /\ b.totalAmount = flights[b.flight].price * Len(b.passengers)
                    /\ b.bookingStatus = "confirmed"
                    /\ b.paymentStatus = "paid"
             ELSE /\ b.totalSeats = bookings[i].totalSeats
                  /\ b.totalAmount = bookings[i].totalAmount
                  /\ b.paymentStatus = bookings[i].paymentStatus
    ]_vars

\* C13 witness: a two-passenger booking has been created and later cancelled,
\* and still carries two seats and twice its flight's price.
C13_Witness ==
  \E i \in 1..Len(bookings) :
    /\ bookings[i].bookingStatus = "cancelled"
    /\ Len(bookings[i].passengers) = 2
    /\ bookings[i].totalSeats = 2
    /\ bookings[i].totalAmount = 2 * flights[bookings[i].flight].price
    /\ bookings[i].paymentStatus = "paid"

\* C14: a create request that passes the flight, capacity and distinct-seat
\* checks is rejected as already booked exactly when some booking of the
\* same flight that is not cancelled, of whatever user, has a passenger on a
\* requested seat; otherwise it is created.  Cancelled bookings and bookings
\* of other flights never cause the rejection.
C14_AlreadyBookedIff ==
  [][LET q == reqs'[1]
         n == Len(q.passengers)
         requested == {q.passengers[k].seatNumber : k \in 1..n}
         holders == {i \in 1..Len(bookings) :
                       /\ bookings[i].flight = q.flightId
                       /\ bookings[i].bookingStatus # "cancelled"
                       /\ \E k \in 1..Len(bookings[i].passengers) :
                            bookings[i].passengers[k].seatNumber \in requested}
     IN (/\ q.kind = "create"
         /\ q.flightId \in DOMAIN flights
         /\ flights[q.flightId].availableSeats >= n
         /\ Cardinality(requested) = n) =>
          IF holders # {}
            THEN q.res = [status |-> 400,
                          message |-> "One or more selected seats are already booked"]
          ELSE q.res.status = 201 /\ Len(bookings') = Len(bookings) + 1
    ]_vars

\* C14 witness: the request just served was created on a seat that a
\* cancelled booking of the same flight, made by another user, names.
C14_Witness ==
  /\ Served(1, "create", 201)
  /\ \E i \in 1..Len(bookings) :
       /\ i # reqs[1].bookingId
       /\ bookings[i].flight = reqs[1].flightId
       /\ bookings[i].bookingStatus = "cancelled"
       /\ bookings[i].user # reqs[1].user
       /\ SeatSet(bookings[i].passengers) \cap SeatSet(reqs[1].passengers) # {}

\* C15: in every reachable state, concurrent requests included, the
\* booked-seats query of a flight returns each seat number of a passenger of
\* a confirmed booking of that flight, once, and nothing else; a seat named
\* only by cancelled bookings is absent.
C15_BookedSeatsExact ==
  \A f \in FlightIdInputs :
    LET result == BookedSeats(Database, f)
        confirmed == {i \in 1..Len(bookings) :
                        bookings[i].flight = f /\ bookings[i].bookingStatus = "confirmed"}
    IN /\ {result[k] : k \in 1..Len(result)}
            = UNION {{bookings[i].passengers[k].seatNumber :
                        k \in 1..Len(bookings[i].passengers)} : i \in confirmed}
       /\ \A k, l \in 1..Len(result) : k # l => result[k] # result[l]

\* C15 witness: a booking of a flight has been cancelled and another one of
\* the same flight is confirmed; the query returns the seats of the second
\* and not the seat only the first names.
C15_Witness ==
  \E f \in DOMAIN flights, i, j \in 1..Len(bookings) :
    /\ bookings[i].flight = f /\ bookings[i].bookingStatus = "cancelled"
    /\ bookings[j].flight = f /\ bookings[j].bookingStatus = "confirmed"
    /\ SeatSet(bookings[i].passengers) \cap SeatSet(bookings[j].passengers) = {}
    /\ BookedSeats(Database, f) # <<>>
    /\ \A k \in 1..Len(BookedSeats(Database, f)) :
         /\ BookedSeats(Database, f)[k] \in SeatSet(bookings[j].passengers)
         /\ BookedSeats(Database, f)[k] \notin SeatSet(bookings[i].passengers)

\* C16: when flight.save() fails in a create, after the booking was inserted,
\* the request is answered 500 and nothing is rolled back: the ledger has
\* grown by the new booking, confirmed, every flight is as before the
\* request, and a later create naming one of the booking's seats on that
\* flight is not accepted.  When flight.save() fails in a cancel, after the
\* booking was saved, the request is answered 500, the booking is cancelled
\* and every flight is as before the request.
C16_NoRollback ==
  [][LET q == reqs'[1]
     IN /\ (q.kind = "create" /\ q.error = "saveFlight") =>
             /\ q.res = [status |-> 500, message |-> "Error creating booking"]
             /\ Len(bookings') = Len(bookings) + 1
             /\ SubSeq(bookings', 1, Len(bookings)) = bookings
             /\ bookings'[Len(bookings')].bookingStatus = "confirmed"
             /\ bookings'[Len(bookings')].flight = q.flightId
             /\ bookings'[Len(bookings')].passengers = q.passengers
             /\ flights' = flights
             /\ \A user \in Users, passengers \in PassengerInputs :
                  SeatSet(passengers) \cap SeatSet(q.passengers) # {} =>
                    HandleCreate(DatabaseNext, user, q.flightId, passengers).rq.res.status
                      = 400
        /\ (q.kind = "cancel" /\ q.error = "restoreFlight") =>
             /\ q.res = [status |-> 500, message |-> "Error cancelling booking"]
             /\ Len(bookings') = Len(bookings)
             /\ bookings[q.bookingId].bookingStatus = "confirmed"
             /\ bookings'[q.bookingId].bookingStatus = "cancelled"
             /\ flights' = flights
    ]_vars

\* C16 witness: a create has just ended in 500 at its flight save; its
\* booking is in the ledger, confirmed, and the flight still shows every
\* seat of its capacity as available.
C16_Witness ==
  /\ Served(1, "create", 500)
  /\ reqs[1].error = "saveFlight"
  /\ reqs[1].bookingId = Len(bookings)
  /\ bookings[Len(bookings)].bookingStatus = "confirmed"
  /\ flights[reqs[1].flightId].availableSeats = capacity[reqs[1].flightId]

\* C17: a cancel request by the owner of a confirmed booking whose flight is
\* no longer in the catalog is answered 200: the booking becomes cancelled,
\* the rest of the ledger and the catalog (no record added, none changed)
\* stay as they were.
C17_CancelWithoutFlight ==
  [][LET q == reqs'[1]
         id == q.bookingId
     IN (/\ DOMAIN flights' = DOMAIN flights
         /\ q.kind = "cancel"
         /\ id \in 1..Len(bookings)
         /\ bookings[id].user = q.user
         /\ bookings[id].bookingStatus = "confirmed"
         /\ bookings[id].flight \notin DOMAIN flights) =>
          /\ q.res = [status |-> 200, message |-> "Booking cancelled successfully"]
          /\ bookings' = [bookings EXCEPT ![id].bookingStatus = "cancelled"]
          /\ flights' = flights
    ]_vars

\* C17 witness: the cancel just served succeeded on a booking whose flight
\* the catalog no longer holds.
C17_Witness ==
  /\ Served(1, "cancel", 200)
  /\ bookings[reqs[1].bookingId].bookingStatus = "cancelled"
  /\ bookings[reqs[1].bookingId].user = reqs[1].user
  /\ bookings[reqs[1].bookingId].flight \notin DOMAIN flights

\* C18: no step removes a booking from the ledger, turns a cancelled booking
\* into anything else, or changes the bookingReference, user, flight or
\* passenger list a booking was created with.
C18_CancelledIsTerminal ==
  [][/\ Len(bookings') >= Len(bookings)
     /\ \A i \in 1..Len(bookings) :
          /\ bookings[i].bookingStatus = "cancelled"
               => bookings'[i].bookingStatus = "cancelled"
          /\ bookings'[i].bookingReference = bookings[i].bookingReference
          /\ bookings'[i].user = bookings[i].user
          /\ bookings'[i].flight = bookings[i].flight
          /\ bookings'[i].passengers = bookings[i].passengers
    ]_vars

\* C18 witness: a booking was cancelled, keeps the reference it was created
\* with, and a further cancel of it has just been turned away.
C18_Witness ==
  /\ Served(1, "cancel", 400)
  /\ bookings[reqs[1].bookingId].bookingStatus = "cancelled"
  /\ bookings[reqs[1].bookingId].bookingReference
       = "BK" \o ToString(reqs[1].bookingId)

\* The seat numbers the booked-seats query of flight f returns.
QueriedSeats(f) ==
  {BookedSeats(Database, f)[k] : k \in 1..Len(BookedSeats(Database, f))}

\* The answer a create request for the one seat s on flight f would get now.
CreateAnswer(f, s) ==
  HandleCreate(Database, "u1", f, <<[seatNumber |-> s]>>).rq.res

AlreadyBooked ==
  [status |-> 400, message |-> "One or more selected seats are already booked"]

\* C19 as stated: in every state reached by create and cancel requests no
\* booking is pending, and a seat is in the booked-seats result of a flight
\* exactly when a create for that seat on that flight would be rejected as
\* already booked.
C19_QueryAgreesWithCreate ==
  /\ \A i \in 1..Len(bookings) : bookings[i].bookingStatus # "pending"
  /\ \A f \in FlightIdInputs, s \in SeatNumbers :
       s \in QueriedSeats(f) <=> CreateAnswer(f, s) = AlreadyBooked

\* C19 amended: in every state reached by create and cancel requests no
\* booking is pending, and a seat is in the booked-seats result of a flight
\* exactly when the create handler's lookup of active bookings matches that
\* seat on that flight; so a create for that seat that passes the flight and
\* capacity checks is rejected as already booked exactly when the seat is in
\* the result.
C19_QueryAgreesWithLookup ==
  /\ \A i \in 1..Len(bookings) : bookings[i].bookingStatus # "pending"
  /\ \A f \in FlightIdInputs, s \in SeatNumbers :
       /\ s \in QueriedSeats(f) <=> ExistingBookings(Database, f, {s}) # {}
       /\ (f \in DOMAIN flights /\ flights[f].availableSeats >= 1) =>
            (s \in QueriedSeats(f) <=> CreateAnswer(f, s) = AlreadyBooked)

\* C19 witness: on a flight with a seat to spare, one booking is cancelled
\* and another confirmed; the seat of the first is neither in the query
\* result nor refused to a create, the seat of the second is both.
C19_Witness ==
  \E f \in DOMAIN flights, s, t \in SeatNumbers :
    /\ flights[f].availableSeats >= 1
    /\ \E i \in 1..Len(bookings) :
         /\ bookings[i].flight = f /\ bookings[i].bookingStatus = "cancelled"
         /\ s \in SeatSet(bookings[i].passengers)
    /\ s \notin QueriedSeats(f) /\ CreateAnswer(f, s).status = 201
    /\ t \in QueriedSeats(f) /\ CreateAnswer(f, t) = AlreadyBooked

\* Seat strings by zero-based passenger index: row (i div 6) + 1, then the
\* letter at offset i mod 6 from 'A'.
ExpectedSeats == <<"1A", "1B", "1C", "1D", "1E", "1F", "2A", "2B">>

\* C20: when a booking is saved, it is stored with every passenger that came
\* without a seat number given the seat of its zero-based index ("1A".."1F"
\* for 0..5, "2A" for 6) and every passenger that came with a seat number
\* keeping it.
C20_AutoSeatOnSave ==
  [][At(1, "save", "createBooking") =>
       /\ Len(bookings') = Len(bookings) + 1
       /\ LET draft == reqs[1].passengers
              stored == bookings'[Len(bookings')].passengers
          IN /\ Len(stored) = Len(draft)
             /\ \A i \in 1..Len(draft) :
                  stored[i].seatNumber =
                    IF draft[i].seatNumber = "" THEN ExpectedSeats[i]
                    ELSE draft[i].seatNumber
    ]_vars
====
